---- MODULE Spec2Model ----
(***************************************************************************)
(* Model of the cooperative timing core of the "Pg" Arduino library:       *)
(* the interval Timer (libraries/Timers/Timer.cpp), the chronological      *)
(* command Sequencer (libraries/components/Sequencer/Sequencer.cpp) that   *)
(* embeds one Timer, the TaskScheduler                                     *)
(* (libraries/utilities/TaskScheduler/TaskScheduler.cpp) and the           *)
(* RotaryActuator with its SweepServo (libraries/components/RotaryActuator).*)
(* Every public method is one atomic step taken at one reading of          *)
(* millis(); the clock advances between steps.                             *)
(***************************************************************************)
EXTENDS Integers, Sequences, FiniteSets, TLC

(* ------------------------------ bounds --------------------------------- *)
\* msecs_t is an unsigned integer; readings and differences are taken
\* modulo ClockMod (the model's scaled-down 2^32).
ClockMod == 3
\* Event durations range over 0..MaxDuration.
MaxDuration == 1
\* The event collection has 1..MaxEvents elements.
MaxEvents == 2

\* The task collection has 1..MaxTasks elements.
MaxTasks == 2

\* The servo's pulse widths (steps, in microseconds) range over
\* min_pulse_width..max_pulse_width and its angles over 0..max_control_angle:
\* scaled-down servo_traits with a pulse range that is not a multiple of
\* the angle range, as in servo_traits<hiwonder_20> (2030 us for 180 degrees).
min_pulse_width == 1
max_pulse_width == 10
max_control_angle == 2
\* Step sizes range over 1..MaxStepSize.
MaxStepSize == 3

Clock == 0 .. (ClockMod - 1)
Durations == 0 .. MaxDuration

\* Unsigned subtraction of two msecs_t values.
Sub(a, b) == (a - b + ClockMod) % ClockMod

(* ------------------------------- Timer --------------------------------- *)
\* A value-initialized Timer: all members zero.
Timer_init == [interval_ |-> 0, begin_ |-> 0, end_ |-> 0, active_ |-> FALSE]

Timer_active(t) == t.active_

Timer_interval(t) == t.interval_

\* Variant: elapsed() that always measures up to the current clock reading.
Timer_elapsed_IgnoresStop(t, millis) == Sub(millis, t.begin_)

\* Variant: elapsed() that compares the readings as signed numbers.
Timer_elapsed_Signed(t, millis) ==
    LET time == IF Timer_active(t) THEN millis ELSE t.end_
    IN  IF time < t.begin_ THEN 0 ELSE time - t.begin_

\* Variant: elapsed() that stops counting at the interval.
Timer_elapsed_UpToInterval(t, millis) ==
    LET time == IF Timer_active(t) THEN millis ELSE t.end_
        passed == Sub(time, t.begin_)
    IN  IF passed > t.interval_ THEN t.interval_ ELSE passed

Timer_elapsed(t, millis) ==
    LET time == IF Timer_active(t) THEN millis ELSE t.end_
    IN  Sub(time, t.begin_)

\* Variant: reset() that moves begin_ only.
Timer_reset_BeginOnly(t, millis) == [t EXCEPT !.begin_ = millis]

Timer_reset(t, millis) == [t EXCEPT !.begin_ = millis, !.end_ = millis]

\* Variant: interval(d) that stores d without calling reset().
Timer_setInterval_NoReset(t, millis, d) == [t EXCEPT !.interval_ = d]

Timer_setInterval(t, millis, d) ==
    [Timer_reset(t, millis) EXCEPT !.interval_ = d]

\* Variant: resume() that restarts the measurement at the current reading.
Timer_resume_FromNow(t, millis) ==
    IF ~Timer_active(t)
    THEN [t EXCEPT !.begin_ = millis, !.active_ = TRUE]
    ELSE t

Timer_resume(t, millis) ==
    IF ~Timer_active(t)
    THEN [t EXCEPT !.begin_ = Sub(millis, Timer_elapsed(t, millis)),
                   !.active_ = TRUE]
    ELSE t

\* Variant: start(d) without the test of active().
Timer_startWith_Unguarded(t, millis, d) ==
    Timer_resume(Timer_setInterval(t, millis, d), millis)

\* Timer::start(msecs_t)
Timer_startWith(t, millis, d) ==
    IF ~Timer_active(t)
    THEN Timer_resume(Timer_setInterval(t, millis, d), millis)
    ELSE t

\* Variant: start() that does not call reset() before resume().
Timer_start_KeepsElapsed(t, millis) ==
    IF ~Timer_active(t)
    THEN Timer_resume(t, millis)
    ELSE t

Timer_start(t, millis) ==
    IF ~Timer_active(t)
    THEN Timer_resume(Timer_reset(t, millis), millis)
    ELSE t

\* Variant: stop() that clears active_ without recording the stop time.
Timer_stop_NoEnd(t, millis) ==
    IF Timer_active(t)
    THEN [t EXCEPT !.active_ = FALSE]
    ELSE t

Timer_stop(t, millis) ==
    IF Timer_active(t)
    THEN [t EXCEPT !.end_ = millis, !.active_ = FALSE]
    ELSE t

\* Variant: expired() that needs the elapsed time to exceed the interval.
Timer_expired_Strict(t, millis) ==
    /\ Timer_active(t)
    /\ Timer_interval(t) # 0
    /\ ~(Timer_elapsed(t, millis) <= Timer_interval(t))

\* Variant: expired() that holds only at the moment the interval runs out.
Timer_expired_Once(t, millis) ==
    /\ Timer_active(t)
    /\ Timer_interval(t) # 0
    /\ Timer_elapsed(t, millis) = Timer_interval(t)

Timer_expired(t, millis) ==
    /\ Timer_active(t)
    /\ Timer_interval(t) # 0
    /\ ~(Timer_elapsed(t, millis) < Timer_interval(t))

(* ----------------------------- Sequencer ------------------------------- *)
\* An Event: its duration and whether its command_ pointer is non-null.
Event == [duration_ : Durations, command_ : BOOLEAN]

\* The externally supplied, non-empty, fixed-size event collections.
EventArrays == UNION { [1..n -> Event] : n \in 1..MaxEvents }

\* Iterator positions are offsets from std_begin(events_);
\* std_end(events_) is the offset Len(events_).
std_begin(s) == 0
std_end(s) == Len(s.events_)

\* **current_
CurrentEvent(s) == s.events_[s.current_ + 1]

\* What a step makes observable to the client, in order.
Executed(i) == <<"execute", i>>
CallbackBegin(i) == <<"Begin", i>>
CallbackEnd(i) == <<"End", i>>

\* The Sequencer after construction over the collection evs.
Sequencer_init(evs, w) ==
    [events_ |-> evs, current_ |-> 0, wrap_ |-> w, done_ |-> FALSE,
     exec_ |-> FALSE, event_timer_ |-> Timer_init, fired |-> <<>>]

Sequencer_status(s) ==
    IF Timer_active(s.event_timer_) THEN "Active"
    ELSE IF s.done_ THEN "Done" ELSE "Idle"

Sequencer_elapsed(s, millis) == Timer_elapsed(s.event_timer_, millis)

\* The number of values of uint8_t, the return type of index().
Uint8Range == 256

\* Variant: index() that counts from zero.
Sequencer_index_FromZero(s) == (s.current_ - std_begin(s)) % Uint8Range

Sequencer_index(s) == (s.current_ - std_begin(s) + 1) % Uint8Range

\* Sequencer::callback(const_iterator, Event::State) with a client callback set.
Sequencer_callback(s, note) == [s EXCEPT !.fired = Append(@, note)]


\* Variant: rewind() that moves the cursor but leaves done_ set.
Sequencer_rewind_KeepsDone(s) == [s EXCEPT !.current_ = std_begin(s)]

Sequencer_rewind(s) == [s EXCEPT !.current_ = std_begin(s), !.done_ = FALSE]

\* Variant: begin() that makes the Begin callback before it executes the
\* command.
Sequencer_begin_CallbackFirst(s, millis) ==
    LET s1 == [s EXCEPT !.event_timer_ =
                   Timer_setInterval(@, millis, CurrentEvent(s).duration_)]
        s2 == Sequencer_callback(s1, CallbackBegin(s1.current_))
    IN  IF CurrentEvent(s2).command_
        THEN [s2 EXCEPT !.fired = Append(@, Executed(s2.current_))]
        ELSE s2

Sequencer_begin(s, millis) ==
    LET s1 == [s EXCEPT !.event_timer_ =
                   Timer_setInterval(@, millis, CurrentEvent(s).duration_)]
        s2 == IF CurrentEvent(s1).command_
              THEN [s1 EXCEPT !.fired = Append(@, Executed(s1.current_))]
              ELSE s1
    IN  Sequencer_callback(s2, CallbackBegin(s2.current_))

Sequencer_end(s) == Sequencer_callback(s, CallbackEnd(s.current_))

Sequencer_stop(s, millis) ==
    [s EXCEPT !.event_timer_ = Timer_stop(@, millis)]


\* Variant: advance() that completes the sequence without stopping the timer.
Sequencer_advance_NoStop(s, millis) ==
    LET s1 == [s EXCEPT !.current_ = @ + 1]
    IN  IF s1.current_ = std_end(s1)
        THEN IF s1.wrap_
             THEN [s1 EXCEPT !.current_ = std_begin(s1)]
             ELSE LET s3 == [s1 EXCEPT !.current_ = @ - 1, !.done_ = TRUE]
                  IN  Sequencer_callback(s3, CallbackEnd(s3.current_))
        ELSE s1

\* Variant: advance() that ignores wrap_ and always completes at the end.
Sequencer_advance_NeverWraps(s, millis) ==
    LET s1 == [s EXCEPT !.current_ = @ + 1]
    IN  IF s1.current_ = std_end(s1)
        THEN LET s2 == Sequencer_stop(s1, millis)
                 s3 == [s2 EXCEPT !.current_ = @ - 1, !.done_ = TRUE]
             IN  Sequencer_callback(s3, CallbackEnd(s3.current_))
        ELSE s1

\* Variant: advance() that completes without stepping the cursor back from
\* std_end(events_).
Sequencer_advance_PastEnd(s, millis) ==
    LET s1 == [s EXCEPT !.current_ = @ + 1]
    IN  IF s1.current_ = std_end(s1)
        THEN IF s1.wrap_
             THEN [s1 EXCEPT !.current_ = std_begin(s1)]
             ELSE LET s2 == Sequencer_stop(s1, millis)
                      s3 == [s2 EXCEPT !.done_ = TRUE]
                  IN  Sequencer_callback(s3, CallbackEnd(s3.current_ - 1))
        ELSE s1

\* Variant: advance() that completes without setting done_.
Sequencer_advance_NoDone(s, millis) ==
    LET s1 == [s EXCEPT !.current_ = @ + 1]
    IN  IF s1.current_ = std_end(s1)
        THEN IF s1.wrap_
             THEN [s1 EXCEPT !.current_ = std_begin(s1)]
             ELSE LET s2 == Sequencer_stop(s1, millis)
                      s3 == [s2 EXCEPT !.current_ = @ - 1]
                  IN  Sequencer_callback(s3, CallbackEnd(s3.current_))
        ELSE s1

Sequencer_advance(s, millis) ==
    LET s1 == [s EXCEPT !.current_ = @ + 1]
    IN  IF s1.current_ = std_end(s1)
        THEN IF s1.wrap_
             THEN [s1 EXCEPT !.current_ = std_begin(s1)]
             ELSE LET s2 == Sequencer_stop(s1, millis)
                      s3 == [s2 EXCEPT !.current_ = @ - 1, !.done_ = TRUE]
                  IN  Sequencer_callback(s3, CallbackEnd(s3.current_))
        ELSE s1


\* Variant: start() that begins the event at the cursor without rewinding.
Sequencer_start_NoRewind(s, millis) ==
    IF Sequencer_status(s) # "Active"
    THEN LET s1 == Sequencer_begin(s, millis)
         IN  [s1 EXCEPT !.event_timer_ = Timer_start(@, millis)]
    ELSE s

\* Variant: start() without the test of status().
Sequencer_start_Unguarded(s, millis) ==
    LET s1 == Sequencer_begin(Sequencer_rewind(s), millis)
    IN  [s1 EXCEPT !.event_timer_ = Timer_start(@, millis)]

Sequencer_start(s, millis) ==
    IF Sequencer_status(s) # "Active"
    THEN LET s1 == Sequencer_begin(Sequencer_rewind(s), millis)
         IN  [s1 EXCEPT !.event_timer_ = Timer_start(@, millis)]
    ELSE s


\* Variant: reset() that zeroes the elapsed time of a stopped timer but does
\* not set its interval to 0.
Sequencer_reset_NoSentinel(s, millis) ==
    LET s1 == Sequencer_rewind(s)
    IN  IF Sequencer_status(s1) = "Active"
        THEN Sequencer_begin(
                 [s1 EXCEPT !.event_timer_ = Timer_reset(@, millis)], millis)
        ELSE [s1 EXCEPT !.event_timer_ = Timer_reset(@, millis)]

\* Variant: reset() that rewinds an Active sequence without beginning the
\* first event.
Sequencer_reset_NoBegin(s, millis) ==
    LET s1 == Sequencer_rewind(s)
    IN  IF Sequencer_status(s1) = "Active"
        THEN [s1 EXCEPT !.event_timer_ = Timer_reset(@, millis)]
        ELSE [s1 EXCEPT !.event_timer_ = Timer_setInterval(@, millis, 0)]

Sequencer_reset(s, millis) ==
    LET s1 == Sequencer_rewind(s)
    IN  IF Sequencer_status(s1) = "Active"
        THEN Sequencer_begin(
                 [s1 EXCEPT !.event_timer_ = Timer_reset(@, millis)], millis)
        ELSE [s1 EXCEPT !.event_timer_ = Timer_setInterval(@, millis, 0)]


\* Variant: resume() that acts whenever status() is not Active.
Sequencer_resume_NotActive(s, millis) ==
    IF Sequencer_status(s) # "Active"
    THEN IF Timer_interval(s.event_timer_) = 0
         THEN Sequencer_start(s, millis)
         ELSE LET s1 == IF s.exec_
                        THEN [Sequencer_begin(s, millis) EXCEPT !.exec_ = FALSE]
                        ELSE s
              IN  [s1 EXCEPT !.event_timer_ = Timer_resume(@, millis)]
    ELSE s

Sequencer_resume(s, millis) ==
    IF Sequencer_status(s) = "Idle"
    THEN IF Timer_interval(s.event_timer_) = 0
         THEN Sequencer_start(s, millis)
         ELSE LET s1 == IF s.exec_
                        THEN [Sequencer_begin(s, millis) EXCEPT !.exec_ = FALSE]
                        ELSE s
              IN  [s1 EXCEPT !.event_timer_ = Timer_resume(@, millis)]
    ELSE s

\* Variant: next() that moves the cursor and leaves the timer as it was.
Sequencer_next_NoRearm(s, millis) ==
    LET s1 == [s EXCEPT !.current_ = @ + 1]
        s2 == IF s1.current_ = std_end(s1)
              THEN [s1 EXCEPT !.current_ = std_begin(s1)]
              ELSE s1
    IN  [s2 EXCEPT !.exec_ = TRUE]

Sequencer_next(s, millis) ==
    LET s1 == [s EXCEPT !.current_ = @ + 1]
        s2 == IF s1.current_ = std_end(s1)
              THEN [s1 EXCEPT !.current_ = std_begin(s1)]
              ELSE s1
        s3 == [s2 EXCEPT !.exec_ = TRUE]
        s4 == [s3 EXCEPT !.event_timer_ =
                   Timer_setInterval(@, millis, CurrentEvent(s3).duration_)]
    IN  [s4 EXCEPT !.event_timer_ = Timer_reset(@, millis)]

Sequencer_prev(s, millis) ==
    LET s1 == IF s.current_ = std_begin(s)
              THEN [s EXCEPT !.current_ = std_end(s)]
              ELSE s
        s2 == [s1 EXCEPT !.current_ = @ - 1]
        s3 == [s2 EXCEPT !.exec_ = TRUE]
        s4 == [s3 EXCEPT !.event_timer_ =
                   Timer_setInterval(@, millis, CurrentEvent(s3).duration_)]
    IN  [s4 EXCEPT !.event_timer_ = Timer_reset(@, millis)]

Sequencer_wrap(s, value) == [s EXCEPT !.wrap_ = value]


\* Variant: tick() that advances twice when the timer has expired.
Sequencer_tick_CatchUp(s, millis) ==
    IF Timer_expired(s.event_timer_, millis)
    THEN LET s1 == Sequencer_advance(
                       Sequencer_advance(Sequencer_end(s), millis), millis)
         IN  IF Sequencer_status(s1) = "Active"
             THEN Sequencer_begin(s1, millis)
             ELSE s1
    ELSE s

Sequencer_tick(s, millis) ==
    IF Timer_expired(s.event_timer_, millis)
    THEN LET s1 == Sequencer_advance(Sequencer_end(s), millis)
         IN  IF Sequencer_status(s1) = "Active"
             THEN Sequencer_begin(s1, millis)
             ELSE s1
    ELSE s

(* ---------------------------- TaskScheduler ----------------------------- *)
\* What the client's command object of a task does to the collection when it
\* is executed: nothing, or it sets the state of the task that follows its
\* own (of the first task, from the last) through Task::state().
ICommand == {"none", "idleNext", "activeNext"}

Task == [command_ : ICommand, interval_ : Durations, last_ : Clock,
         state_ : {"Idle", "Active"}]

\* Task::Task(ICommand*, msecs_t, State): last_ is value-initialized.
Task_init(c, d, st) ==
    [command_ |-> c, interval_ |-> d, last_ |-> 0, state_ |-> st]

\* The externally supplied, non-empty task collections.
TaskArrays ==
    UNION { [1..n -> { Task_init(c, d, st) : c \in ICommand, d \in Durations,
                                             st \in {"Idle", "Active"} }]
            : n \in 1..MaxTasks }

\* The TaskScheduler over the collection ts.  fired lists the tasks whose
\* command the last tick() executed, in order; checked[i] is task i and the
\* clock reading as they were when that tick() tested scheduled(task i).
TaskScheduler_init(ts) == [tasks_ |-> ts, fired |-> <<>>, checked |-> <<>>]

\* Variant: scheduled() that does not look at the task's state.
TaskScheduler_scheduled_IgnoresState(task, millis) ==
    ~(Sub(millis, task.last_) < task.interval_)

TaskScheduler_scheduled(task, millis) ==
    ~(task.state_ = "Idle" \/ Sub(millis, task.last_) < task.interval_)

\* (*task)->command_->execute()
ICommand_execute(k, i) ==
    LET next == (i % Len(k.tasks_)) + 1
        c == k.tasks_[i].command_
        k1 == [k EXCEPT !.fired = Append(@, i)]
    IN  IF c = "idleNext" THEN [k1 EXCEPT !.tasks_[next].state_ = "Idle"]
        ELSE IF c = "activeNext"
        THEN [k1 EXCEPT !.tasks_[next].state_ = "Active"]
        ELSE k1

\* Variant: a firing that executes the command once more when the task is
\* overdue by two intervals or more.
TaskScheduler_fire_CatchUp(k, i, millis) ==
    LET t == k.tasks_[i]
        k1 == ICommand_execute([k EXCEPT !.tasks_[i].last_ = millis], i)
    IN  IF t.interval_ # 0 /\ Sub(millis, t.last_) >= 2 * t.interval_
        THEN ICommand_execute(k1, i)
        ELSE k1

\* Variant: a firing that moves last_ on by one interval, to the reading at
\* which the task became due.
TaskScheduler_fire_FromDueTime(k, i, millis) ==
    ICommand_execute(
        [k EXCEPT !.tasks_[i].last_ = (@ + k.tasks_[i].interval_) % ClockMod],
        i)

\* The body of the loop of tick() for a scheduled task.
TaskScheduler_fire(k, i, millis) ==
    ICommand_execute([k EXCEPT !.tasks_[i].last_ = millis], i)

\* Variant: a loop that runs from the last task to the first.
TaskScheduler_visit_Backwards(k, n) == Len(k.tasks_) + 1 - n

\* The task the iterator of tick() points to in its n-th iteration.
TaskScheduler_visit(k, n) == n

RECURSIVE TaskScheduler_loop(_, _, _)
TaskScheduler_loop(k, n, millis) ==
    IF n > Len(k.tasks_) THEN k
    ELSE LET i == TaskScheduler_visit(k, n)
             t == k.tasks_[i]
             k1 == [k EXCEPT !.checked[i] = [task |-> t, millis |-> millis]]
         IN  IF TaskScheduler_scheduled(t, millis)
             THEN TaskScheduler_loop(TaskScheduler_fire(k1, i, millis),
                                     n + 1, millis)
             ELSE TaskScheduler_loop(k1, n + 1, millis)

\* Variant: tick() that returns after the first command it executes.
TaskScheduler_tick_FirstDueOnly(k, millis) ==
    LET k0 == [k EXCEPT !.fired = <<>>,
                        !.checked = [i \in 1..Len(k.tasks_) |->
                                        [task |-> k.tasks_[i],
                                         millis |-> millis]]]
        due == { i \in 1..Len(k.tasks_) :
                    TaskScheduler_scheduled(k.tasks_[i], millis) }
    IN  IF due = {} THEN k0
        ELSE TaskScheduler_fire(
                 k0, CHOOSE i \in due : \A j \in due : i <= j, millis)

TaskScheduler_tick(k, millis) ==
    TaskScheduler_loop(
        [k EXCEPT !.fired = <<>>,
                  !.checked = [i \in 1..Len(k.tasks_) |-> [none |-> TRUE]]],
        1, millis)

(* ------------------------------ SweepServo ------------------------------ *)
InvalidAngle == 0 - 1
InvalidStep == 0 - 1

Angles == 0 .. max_control_angle
StepSizes == 1 .. MaxStepSize

\* The smallest step size stands for SweepServo::DefaultStepSize.
DefaultStepSize == 1

\* Arduino's map(): linear re-scaling in integer arithmetic.
map(x, in_min, in_max, out_min, out_max) ==
    ((x - in_min) * (out_max - out_min)) \div (in_max - in_min) + out_min

abs(x) == IF x < 0 THEN 0 - x ELSE x

SweepServo_init ==
    [current_step_ |-> InvalidStep, final_step_ |-> InvalidStep,
     step_dir_ |-> 0, steps_remaining_ |-> 0, step_size_ |-> DefaultStepSize]

SweepServo_initialized(v) == v.current_step_ # InvalidStep

SweepServo_angleToStep(angle) ==
    map(angle, 0, max_control_angle, min_pulse_width, max_pulse_width)

SweepServo_stepToAngle(step) ==
    map(step + 1, min_pulse_width, max_pulse_width, 0, max_control_angle)

\* SweepServo::initialize(angle) on an attached servo: the blocking rotation
\* ends with writeMicroseconds(angleToStep(angle)), which is read back.
SweepServo_initialize(v, angle) ==
    [v EXCEPT !.current_step_ = SweepServo_angleToStep(angle),
              !.final_step_ = SweepServo_angleToStep(angle)]

SweepServo_stepSize(v, size) == [v EXCEPT !.step_size_ = size]

SweepServo_clock(v) ==
    IF v.current_step_ # v.final_step_
    THEN IF v.steps_remaining_ # 0
         THEN [v EXCEPT !.steps_remaining_ = @ - 1,
                        !.current_step_ = @ + v.step_dir_]
         ELSE [v EXCEPT !.current_step_ = v.final_step_]
    ELSE v

SweepServo_beginSweep(v, to) ==
    LET sweep_diff == abs(v.current_step_ - to)
    IN  SweepServo_clock(
            [v EXCEPT !.step_dir_ = IF to < v.current_step_
                                    THEN 0 - v.step_size_ ELSE v.step_size_,
                      !.steps_remaining_ = sweep_diff \div v.step_size_,
                      !.final_step_ = to])

\* SweepServo::sweep(angle_t): the servo it leaves; the call returns the
\* steps_remaining_ of that servo.
SweepServo_sweepTo(v, angle) ==
    IF SweepServo_initialized(v)
    THEN SweepServo_beginSweep(v, SweepServo_angleToStep(angle))
    ELSE v

\* SweepServo::sweep() const
SweepServo_sweep(v) ==
    IF SweepServo_initialized(v)
    THEN SweepServo_stepToAngle(v.current_step_)
    ELSE InvalidAngle

(* ---------------------------- RotaryActuator ---------------------------- *)
\* What a call makes observable, in order: the servo commands it issues and
\* the client callbacks it makes.
Swept(angle) == <<"sweep", angle>>
Clocked == <<"clock">>
Callback(new_state) == <<"callback", new_state>>

RotaryActuator_init(v) ==
    [servo_ |-> v, cmd_angle_ |-> InvalidAngle, state_ |-> "Init",
     fired |-> <<>>]

\* RotaryActuator::state() const
RotaryActuator_state(a) == a.state_

\* Variant: state(State) that calls back whether or not the state changes.
RotaryActuator_setState_Always(a, new_state) ==
    [a EXCEPT !.state_ = new_state,
              !.fired = Append(@, Callback(new_state))]

\* RotaryActuator::state(State) with a client callback set.
RotaryActuator_setState(a, new_state) ==
    IF new_state # a.state_
    THEN [a EXCEPT !.state_ = new_state,
                   !.fired = Append(@, Callback(new_state))]
    ELSE a

\* Variant: begin() that does not test the reading.
RotaryActuator_begin_AlwaysIdle(a) == RotaryActuator_setState(a, "Idle")

RotaryActuator_begin(a) ==
    RotaryActuator_setState(a,
        IF SweepServo_sweep(a.servo_) = InvalidAngle THEN "Error" ELSE "Idle")

\* RotaryActuator::rotate(angle): the actuator it leaves; the call returns
\* the steps_remaining_ of its servo.
RotaryActuator_rotate(a, angle) ==
    [a EXCEPT !.cmd_angle_ = angle,
              !.servo_ = SweepServo_sweepTo(@, angle),
              !.fired = Append(@, Swept(angle))]

\* Variant: position(angle) without the test of the state.
RotaryActuator_position_AnyState(a, angle) ==
    IF angle # InvalidAngle
    THEN LET a1 == RotaryActuator_rotate(a, angle)
         IN  IF a1.servo_.steps_remaining_ # 0
             THEN RotaryActuator_setState(a1, "Active")
             ELSE a1
    ELSE a

\* RotaryActuator::position(angle_t)
RotaryActuator_position(a, angle) ==
    IF angle # InvalidAngle /\ a.state_ = "Idle"
    THEN LET a1 == RotaryActuator_rotate(a, angle)
         IN  IF a1.servo_.steps_remaining_ # 0
             THEN RotaryActuator_setState(a1, "Active")
             ELSE a1
    ELSE a

\* RotaryActuator::position() const
RotaryActuator_getPosition(a) ==
    IF a.state_ = "Idle" THEN SweepServo_sweep(a.servo_) ELSE InvalidAngle

\* Variant: step() that ends the rotation without waiting for the servo.
RotaryActuator_step_NoWait(a) ==
    IF a.state_ \in {"Init", "Active"}
    THEN RotaryActuator_setState(a, "Idle")
    ELSE a

RotaryActuator_step(a) ==
    IF a.state_ \in {"Init", "Active"}
    THEN IF a.cmd_angle_ # SweepServo_sweep(a.servo_)
         THEN [a EXCEPT !.servo_ = SweepServo_clock(@),
                        !.fired = Append(@, Clocked)]
         ELSE RotaryActuator_setState(a, "Idle")
    ELSE a

(* ------------------------------- state --------------------------------- *)
VARIABLES
    seq,        \* the Sequencer object; seq.fired is what the last call fired
    now,        \* the reading millis() returns
    op,         \* the last step taken
    pre,        \* seq, paused and resetFrom as they were before that step
    paused,     \* history: Idle because stop() halted an Active sequence,
                \*          and not reset, started or resumed since
    resetFrom,  \* history: the Idle state the last call, reset(), was made in
    timer,      \* a Timer object used on its own
    tpre,       \* timer as it was before the last step
    arg,        \* the argument of the last call on timer
    ret,        \* what the last call on timer returned
    frozen,     \* history: elapsed time when stop() halted the running timer,
                \*          while no resume/start/reset/interval call followed
    ran,        \* history: time timer has spent running since it was last
                \*          started or reset, counted up to RunCap
    sched,      \* a TaskScheduler and its tasks; sched.fired and
                \* sched.checked are what the last tick() did
    kpre,       \* sched as it was before the last step
    act,        \* a RotaryActuator and the SweepServo it drives; act.fired
                \* is what the last call commanded and called back
    apre        \* act as it was before the last step, and that step's argument

svars == <<seq, pre, paused, resetFrom>>
tvars == <<timer, tpre, arg, ret, frozen, ran>>
kvars == <<sched, kpre>>
avars == <<act, apre>>
vars == <<seq, now, op, pre, paused, resetFrom,
          timer, tpre, arg, ret, frozen, ran, sched, kpre, act, apre>>

NoValue == 0 - 1

\* Running time is counted exactly below RunCap; RunCap stands for any more.
RunCap == 2 * ClockMod

None == [none |-> TRUE]

\* The members of the object, without the record of what was fired.
Object(s) == [s EXCEPT !.fired = <<>>]

Snapshot == [seq |-> seq, paused |-> paused, resetFrom |-> resetFrom]

Init ==
    /\ \E evs \in EventArrays, w \in BOOLEAN : seq = Sequencer_init(evs, w)
    /\ now = 0
    /\ op = "init"
    /\ pre = [seq |-> seq, paused |-> FALSE, resetFrom |-> None]
    /\ paused = FALSE
    /\ resetFrom = None
    /\ timer = Timer_init
    /\ tpre = Timer_init
    /\ arg = 0
    /\ ret = None
    /\ frozen = NoValue
    /\ ran = NoValue
    /\ sched = None
    /\ kpre = None
    /\ act = None
    /\ apre = None

\* One call of a public method at the current clock reading.
Call(name, s) ==
    /\ seq' = s
    /\ op' = name
    /\ pre' = Snapshot
    /\ now' = now
    /\ paused' = IF Sequencer_status(s) # "Idle" THEN FALSE
                 ELSE IF name = "stop" THEN
                          paused \/ Sequencer_status(seq) = "Active"
                 ELSE IF name \in {"start", "reset", "resume"} THEN FALSE
                 ELSE paused
    /\ resetFrom' = IF name = "reset" /\ Sequencer_status(seq) = "Idle"
                    THEN Object(seq) ELSE None
    /\ UNCHANGED tvars
    /\ UNCHANGED kvars
    /\ UNCHANGED avars

Start == Call("start", Sequencer_start(Object(seq), now))

Stop == Call("stop", Sequencer_stop(Object(seq), now))

Reset == Call("reset", Sequencer_reset(Object(seq), now))

Resume == Call("resume", Sequencer_resume(Object(seq), now))

NextEvent == Call("next", Sequencer_next(Object(seq), now))

PrevEvent == Call("prev", Sequencer_prev(Object(seq), now))

SetWrap == \E value \in BOOLEAN :
               Call("wrap", Sequencer_wrap(Object(seq), value))

Tick == Call("tick", Sequencer_tick(Object(seq), now))

\* millis() moves on by one millisecond, wrapping at the width of msecs_t.
Millis ==
    /\ now' = (now + 1) % ClockMod
    /\ seq' = Object(seq)
    /\ op' = "clock"
    /\ pre' = [seq |-> Object(seq), paused |-> paused, resetFrom |-> resetFrom]
    /\ UNCHANGED <<paused, resetFrom>>
    /\ UNCHANGED tvars
    /\ UNCHANGED kvars
    /\ UNCHANGED avars

Next ==
    \/ Start
    \/ Stop
    \/ Reset
    \/ Resume
    \/ NextEvent
    \/ PrevEvent
    \/ SetWrap
    \/ Tick
    \/ Millis

Spec == Init /\ [][Next]_vars

(* A Sequencer that does not wrap, started once and then polled: the client
   calls start() and from then on nothing but tick(), at least once in every
   millisecond.  Here seq.fired is not cleared between the calls: it is the
   log of the commands and callbacks of the whole run. *)
RunInit ==
    /\ Init
    /\ ~seq.wrap_

RunCall(name, s) ==
    /\ seq' = s
    /\ op' = name
    /\ pre' = Snapshot
    /\ now' = now
    /\ UNCHANGED <<paused, resetFrom>>
    /\ UNCHANGED tvars
    /\ UNCHANGED kvars
    /\ UNCHANGED avars

RunStart ==
    /\ op = "init"
    /\ RunCall("start", Sequencer_start(seq, now))

RunTick ==
    /\ op # "init"
    /\ RunCall("tick", Sequencer_tick(seq, now))

\* millis() moves on by one millisecond, after the poll of this millisecond.
RunMillis ==
    /\ op = "tick"
    /\ now' = (now + 1) % ClockMod
    /\ op' = "clock"
    /\ pre' = Snapshot
    /\ UNCHANGED <<seq, paused, resetFrom>>
    /\ UNCHANGED tvars
    /\ UNCHANGED kvars
    /\ UNCHANGED avars

RunNext ==
    \/ RunStart
    \/ RunTick
    \/ RunMillis

\* The main loop keeps polling and the clock keeps running.
RunSpec ==
    /\ RunInit
    /\ [][RunNext]_vars
    /\ WF_vars(RunStart)
    /\ WF_vars(RunTick)
    /\ WF_vars(RunMillis)

(* --------------------------- Timer on its own --------------------------- *)
\* The states a Timer can be constructed in.  Timer(msecs_t) sets interval_
\* only and Timer() sets nothing, so an object with automatic storage starts
\* with indeterminate begin_, end_ and active_ (zero with static storage).
TimerStates ==
    [interval_ : Durations, begin_ : Clock, end_ : Clock, active_ : BOOLEAN]

TimerInit ==
    /\ timer \in TimerStates
    /\ tpre = timer
    /\ now = 0
    /\ op = "init"
    /\ arg = 0
    /\ ret = None
    /\ frozen = NoValue
    /\ ran = NoValue
    /\ seq = None
    /\ pre = None
    /\ paused = FALSE
    /\ resetFrom = None
    /\ sched = None
    /\ kpre = None
    /\ act = None
    /\ apre = None

\* One call of a Timer method with argument a at the current clock reading,
\* leaving the object as t and returning r.
TimerCall(name, a, t, r) ==
    /\ timer' = t
    /\ tpre' = timer
    /\ op' = name
    /\ arg' = a
    /\ ret' = r
    /\ now' = now
    /\ frozen' = IF name = "stop"
                 THEN IF timer.active_ THEN Sub(now, timer.begin_) ELSE frozen
                 ELSE IF name \in {"resume", "start", "startd",
                                   "reset", "interval"}
                 THEN NoValue
                 ELSE frozen
    /\ ran' = IF name \in {"reset", "interval"} THEN 0
              ELSE IF name \in {"start", "startd"} /\ ~timer.active_ THEN 0
              ELSE ran
    /\ UNCHANGED svars
    /\ UNCHANGED kvars
    /\ UNCHANGED avars

TimerSetInterval ==
    \E d \in Durations :
        TimerCall("interval", d, Timer_setInterval(timer, now, d), None)

TimerStartWith ==
    \E d \in Durations :
        TimerCall("startd", d, Timer_startWith(timer, now, d), None)

TimerStart == TimerCall("start", 0, Timer_start(timer, now), None)

TimerStop == TimerCall("stop", 0, Timer_stop(timer, now), None)

TimerResume == TimerCall("resume", 0, Timer_resume(timer, now), None)

TimerReset == TimerCall("reset", 0, Timer_reset(timer, now), None)

TimerElapsed == TimerCall("elapsed", 0, timer, Timer_elapsed(timer, now))

TimerExpired == TimerCall("expired", 0, timer, Timer_expired(timer, now))

\* millis() moves on by one millisecond while the Timer is left alone.
TimerMillis ==
    /\ now' = (now + 1) % ClockMod
    /\ op' = "clock"
    /\ tpre' = timer
    /\ arg' = 0
    /\ ret' = None
    /\ ran' = IF timer.active_ /\ ran # NoValue /\ ran < RunCap
              THEN ran + 1 ELSE ran
    /\ UNCHANGED <<timer, frozen>>
    /\ UNCHANGED svars
    /\ UNCHANGED kvars
    /\ UNCHANGED avars

TimerNext ==
    \/ TimerSetInterval
    \/ TimerStartWith
    \/ TimerStart
    \/ TimerStop
    \/ TimerResume
    \/ TimerReset
    \/ TimerElapsed
    \/ TimerExpired
    \/ TimerMillis

TimerSpec == TimerInit /\ [][TimerNext]_vars

(* ----------------------- TaskScheduler on its own ----------------------- *)
\* The members of the scheduler, without the record of the last tick().
Tasks(k) == [k EXCEPT !.fired = <<>>, !.checked = <<>>]

SchedInit ==
    /\ \E ts \in TaskArrays : sched = TaskScheduler_init(ts)
    /\ kpre = sched
    /\ now = 0
    /\ op = "init"
    /\ seq = None
    /\ pre = None
    /\ paused = FALSE
    /\ resetFrom = None
    /\ timer = Timer_init
    /\ tpre = Timer_init
    /\ arg = 0
    /\ ret = None
    /\ frozen = NoValue
    /\ ran = NoValue
    /\ act = None
    /\ apre = None

\* One call on the scheduler or on one of its tasks at the current clock
\* reading, leaving the scheduler as k.
SchedCall(name, k) ==
    /\ sched' = k
    /\ kpre' = Tasks(sched)
    /\ op' = name
    /\ now' = now
    /\ UNCHANGED svars
    /\ UNCHANGED tvars
    /\ UNCHANGED avars

SchedTick == SchedCall("tick", TaskScheduler_tick(Tasks(sched), now))

\* The client assigns through Task::state().
SchedSetState ==
    \E i \in 1..Len(sched.tasks_), st \in {"Idle", "Active"} :
        SchedCall("state", [Tasks(sched) EXCEPT !.tasks_[i].state_ = st])

\* The client assigns through Task::interval().
SchedSetInterval ==
    \E i \in 1..Len(sched.tasks_), d \in Durations :
        SchedCall("interval", [Tasks(sched) EXCEPT !.tasks_[i].interval_ = d])

\* millis() moves on by one millisecond while the scheduler is left alone.
SchedMillis ==
    /\ now' = (now + 1) % ClockMod
    /\ op' = "clock"
    /\ sched' = Tasks(sched)
    /\ kpre' = Tasks(sched)
    /\ UNCHANGED svars
    /\ UNCHANGED tvars
    /\ UNCHANGED avars

SchedNext ==
    \/ SchedTick
    \/ SchedSetState
    \/ SchedSetInterval
    \/ SchedMillis

SchedSpec == SchedInit /\ [][SchedNext]_vars

(* A TaskScheduler that is only polled: the client calls nothing but tick(),
   at least once in every millisecond, and assigns no state or interval. *)
PollInit == SchedInit

PollTick == SchedCall("tick", TaskScheduler_tick(Tasks(sched), now))

\* millis() moves on by one millisecond, after the poll of this millisecond.
PollMillis ==
    /\ op = "tick"
    /\ SchedMillis

PollNext ==
    \/ PollTick
    \/ PollMillis

\* The main loop keeps polling and the clock keeps running.
PollSpec ==
    /\ PollInit
    /\ [][PollNext]_vars
    /\ WF_vars(PollTick)
    /\ WF_vars(PollMillis)

(* ----------------------- RotaryActuator on its own ---------------------- *)
\* The members of the actuator, without the record of the last call.
Members(a) == [a EXCEPT !.fired = <<>>]

ActuatorInit ==
    /\ act = RotaryActuator_init(SweepServo_init)
    /\ apre = [act |-> act, arg |-> InvalidAngle]
    /\ now = 0
    /\ op = "init"
    /\ seq = None
    /\ pre = None
    /\ paused = FALSE
    /\ resetFrom = None
    /\ timer = Timer_init
    /\ tpre = Timer_init
    /\ arg = 0
    /\ ret = None
    /\ frozen = NoValue
    /\ ran = NoValue
    /\ sched = None
    /\ kpre = None

\* One call with argument x on the actuator or on its servo, leaving the
\* actuator as a.
ActuatorCall(name, x, a) ==
    /\ act' = a
    /\ apre' = [act |-> Members(act), arg |-> x]
    /\ op' = name
    /\ UNCHANGED now
    /\ UNCHANGED svars
    /\ UNCHANGED tvars
    /\ UNCHANGED kvars

ActuatorBegin ==
    ActuatorCall("begin", InvalidAngle, RotaryActuator_begin(Members(act)))

ActuatorPosition ==
    \E angle \in Angles \cup {InvalidAngle} :
        ActuatorCall("position", angle,
                     RotaryActuator_position(Members(act), angle))

\* RotaryActuator::clock(), which calls step().
ActuatorStep ==
    ActuatorCall("step", InvalidAngle, RotaryActuator_step(Members(act)))

\* The client initializes the attached servo.
ServoInitialize ==
    \E angle \in Angles :
        ActuatorCall("initialize", angle,
            [Members(act) EXCEPT !.servo_ = SweepServo_initialize(@, angle)])

\* The client configures the step size of the servo.
ServoStepSize ==
    \E size \in StepSizes :
        ActuatorCall("stepSize", size,
            [Members(act) EXCEPT !.servo_ = SweepServo_stepSize(@, size)])

ActuatorNext ==
    \/ ActuatorBegin
    \/ ActuatorPosition
    \/ ActuatorStep
    \/ ServoInitialize
    \/ ServoStepSize

ActuatorSpec == ActuatorInit /\ [][ActuatorNext]_vars

(* One commanded rotation: the client sets the servo up, calls begin(), calls
   position(angle) once and from then on nothing but step(). *)
DriveInit == ActuatorInit

DriveInitialize ==
    /\ op \in {"init", "initialize", "stepSize"}
    /\ ServoInitialize

DriveStepSize ==
    /\ op \in {"init", "initialize", "stepSize"}
    /\ ServoStepSize

DriveBegin ==
    /\ op \in {"init", "initialize", "stepSize"}
    /\ ActuatorBegin

DrivePosition ==
    /\ op = "begin"
    /\ ActuatorPosition

DriveStep ==
    /\ op \in {"position", "step"}
    /\ ActuatorStep

DriveNext ==
    \/ DriveInitialize
    \/ DriveStepSize
    \/ DriveBegin
    \/ DrivePosition
    \/ DriveStep

\* The main loop keeps calling step().
DriveSpec ==
    /\ DriveInit
    /\ [][DriveNext]_vars
    /\ WF_vars(DriveStep)

(* --------------------------- shorthands -------------------------------- *)
Length == Len(seq.events_)
LastIndex == Length - 1
Before == pre.seq
StatusBefore == Sequencer_status(pre.seq)
StatusNow == Sequencer_status(seq)
ExpiredBefore == Timer_expired(pre.seq.event_timer_, now)

\* What beginning event i makes observable: its command, if it has one,
\* then the Begin callback.
BeginFires(i) ==
    IF seq.events_[i + 1].command_
    THEN <<Executed(i), CallbackBegin(i)>>
    ELSE <<CallbackBegin(i)>>

\* The call left every member of the object as it was and fired nothing.
NoEffect == Object(seq) = Object(Before) /\ seq.fired = <<>>

\* The timer runs the event at the cursor from zero elapsed time.
ArmedForCurrent ==
    /\ Timer_active(seq.event_timer_)
    /\ Timer_interval(seq.event_timer_) = CurrentEvent(seq).duration_
    /\ Sequencer_elapsed(seq, now) = 0

(* ------------------------------ claims --------------------------------- *)

\* C1: with wrap false, the tick() that finds the last event expired leaves
\* status Done, the cursor on the last event and the timer stopped; a tick()
\* on a Done Sequencer fires nothing and changes no member.
C1_DoneParksOnLast ==
    /\ (op = "tick" /\ ExpiredBefore /\ ~Before.wrap_
            /\ Before.current_ = LastIndex)
         => /\ StatusNow = "Done"
            /\ seq.current_ = LastIndex
            /\ ~Timer_active(seq.event_timer_)
    /\ (op = "tick" /\ StatusBefore = "Done") => NoEffect

C1_Witness ==
    /\ op = "tick"
    /\ StatusBefore = "Done"
    /\ Length = 2
    /\ seq.current_ = LastIndex

\* C2: with wrap true, the tick() that finds the last event expired puts the
\* cursor on the first event, begins it and leaves status Active; status
\* becomes Done only in a tick() taken with wrap false.
C2_WrapCycles ==
    /\ (op = "tick" /\ ExpiredBefore /\ Before.wrap_
            /\ Before.current_ = LastIndex)
         => /\ seq.current_ = 0
            /\ StatusNow = "Active"
            /\ seq.fired = <<CallbackEnd(LastIndex)>> \o BeginFires(0)
            /\ ArmedForCurrent
    /\ (StatusNow = "Done" /\ StatusBefore # "Done")
         => (op = "tick" /\ ~Before.wrap_)

C2_Witness ==
    /\ op = "tick"
    /\ ExpiredBefore
    /\ Before.wrap_
    /\ Length = 2
    /\ Before.current_ = LastIndex
    /\ seq.current_ = 0

\* C3: a tick() that finds the timer expired fires End for the current event
\* first, moves the cursor one event on (to the first event from the last one
\* when wrapping, staying on the last one when the sequence completes) and, if
\* still Active, fires the new event's Begin once and runs the timer from zero
\* with the new event's duration; a tick() with the timer not expired changes
\* nothing.
C3_TickStepsOneEvent ==
    /\ (op = "tick" /\ ExpiredBefore)
         => /\ Head(seq.fired) = CallbackEnd(Before.current_)
            /\ seq.current_ =
                  IF Before.current_ < LastIndex THEN Before.current_ + 1
                  ELSE IF Before.wrap_ THEN 0 ELSE LastIndex
            /\ StatusNow = "Active"
                 => /\ seq.fired = <<CallbackEnd(Before.current_)>>
                                      \o BeginFires(seq.current_)
                    /\ ArmedForCurrent
    /\ (op = "tick" /\ ~ExpiredBefore) => NoEffect

C3_Witness ==
    /\ op = "tick"
    /\ ExpiredBefore
    /\ Sequencer_elapsed(Before, now) > Timer_interval(Before.event_timer_)
    /\ StatusNow = "Active"
    /\ seq.current_ = Before.current_ + 1

\* C4: start() on a Sequencer that is not Active puts the cursor on the first
\* event, clears the Done flag, executes the first event's command (if it has
\* one) and fires its Begin callback once, and leaves the timer running from
\* zero with the first event's duration, so that status is Active.
C4_StartBeginsFirst ==
    (op = "start" /\ StatusBefore # "Active")
      => /\ seq.current_ = 0
         /\ ~seq.done_
         /\ seq.fired = BeginFires(0)
         /\ ArmedForCurrent
         /\ StatusNow = "Active"

C4_Witness ==
    /\ op = "start"
    /\ StatusBefore = "Done"
    /\ Before.current_ # 0
    /\ StatusNow = "Active"
    /\ seq.current_ = 0

\* C5: resume() on a Sequencer that is Idle because stop() halted it, and that
\* was not reset since, restarts the timer with elapsed time as at stop(),
\* keeps the cursor and fires nothing, whatever calls led to the pause.
C5_ResumeContinues ==
    (op = "resume" /\ pre.paused)
      => /\ Timer_active(seq.event_timer_)
         /\ Sequencer_elapsed(seq, now) = Sequencer_elapsed(Before, now)
         /\ seq.current_ = Before.current_
         /\ seq.fired = <<>>

\* C6: reset() on an Idle Sequencer fires nothing, and a resume() that follows
\* it leaves the object, and what was fired, exactly as start() would have
\* from the state reset() was called in.
C6_ResetResumeIsStart ==
    /\ (op = "reset" /\ resetFrom # None) => seq.fired = <<>>
    /\ (op = "resume" /\ pre.resetFrom # None)
         => seq = Sequencer_start(pre.resetFrom, now)

C6_Witness ==
    /\ op = "resume"
    /\ pre.resetFrom # None
    /\ pre.resetFrom.current_ # 0
    /\ pre.resetFrom.exec_
    /\ seq.fired # <<>>

\* C7: the cursor is always an index of the event collection.
C7_CursorInRange == seq.current_ \in 0 .. LastIndex

C7_Witness ==
    /\ Length = 1
    /\ op \in {"next", "prev"}
    /\ StatusBefore = "Done"

\* C8: status is Active exactly when the timer runs and Done exactly when
\* the Done flag is set and the timer is stopped; the Done flag is never set
\* while the timer runs.
C8_StatusMatchesTimer ==
    /\ (StatusNow = "Active") <=> Timer_active(seq.event_timer_)
    /\ (StatusNow = "Done") <=> (seq.done_ /\ ~Timer_active(seq.event_timer_))
    /\ ~(seq.done_ /\ Timer_active(seq.event_timer_))

C8_Witness ==
    /\ op = "start"
    /\ Before.done_
    /\ Timer_active(seq.event_timer_)

\* C9: start() on an Active Sequencer changes no member and fires nothing.
C9_StartWhileActive ==
    (op = "start" /\ StatusBefore = "Active") => NoEffect

C9_Witness ==
    /\ op = "start"
    /\ StatusBefore = "Active"
    /\ Sequencer_elapsed(seq, now) > 0
    /\ seq.current_ # 0

\* C10: resume() on an Active or Done Sequencer changes no member and fires
\* nothing.
C10_ResumeOnlyFromIdle ==
    (op = "resume" /\ StatusBefore \in {"Active", "Done"}) => NoEffect

C10_Witness ==
    /\ op = "resume"
    /\ StatusBefore = "Done"
    /\ StatusNow = "Done"

\* C11: reset() on an Active Sequencer puts the cursor on the first event,
\* executes its command (if it has one) and fires its Begin callback, runs the
\* timer from zero with the first event's duration and leaves status Active.
C11_ResetRestartsInPlace ==
    (op = "reset" /\ StatusBefore = "Active")
      => /\ seq.current_ = 0
         /\ seq.fired = BeginFires(0)
         /\ ArmedForCurrent
         /\ StatusNow = "Active"

C11_Witness ==
    /\ op = "reset"
    /\ StatusBefore = "Active"
    /\ Before.current_ # 0
    /\ Sequencer_elapsed(Before, now) > 0
    /\ seq.current_ = 0

\* C12: stop() leaves the cursor, the Done flag and the wrap mode as they were,
\* fires nothing, and leaves the timer stopped with elapsed() as it was at the
\* call; while the timer is stopped, the clock moving on, tick() and stop()
\* leave elapsed() unchanged.
C12_StopOnlyStopsTimer ==
    /\ [](op = "stop"
            => /\ seq.current_ = Before.current_
               /\ seq.done_ = Before.done_
               /\ seq.wrap_ = Before.wrap_
               /\ seq.fired = <<>>
               /\ ~Timer_active(seq.event_timer_)
               /\ Sequencer_elapsed(seq, now) = Sequencer_elapsed(Before, now))
    /\ [][(~Timer_active(seq.event_timer_)
              /\ op' \in {"tick", "stop", "clock"})
            => Sequencer_elapsed(seq', now') = Sequencer_elapsed(seq, now)]_vars

C12_Witness ==
    /\ op = "tick"
    /\ pre.paused
    /\ paused
    /\ Sequencer_elapsed(seq, now) > 0
    /\ now # seq.event_timer_.end_
    /\ seq.current_ # 0

\* C13: next() moves the cursor one position forward and prev() one position
\* back, from the last event to the first and from the first to the last
\* whatever the wrap mode; both set the timer's interval to the new current
\* event's duration and its elapsed time to zero, fire nothing, and leave the
\* running flag and the Done flag as they were.
C13_NextPrevScrub ==
    /\ (op = "next") => seq.current_ = (Before.current_ + 1) % Length
    /\ (op = "prev") => seq.current_ = (Before.current_ + Length - 1) % Length
    /\ (op \in {"next", "prev"})
         => /\ Timer_interval(seq.event_timer_) = CurrentEvent(seq).duration_
            /\ Sequencer_elapsed(seq, now) = 0
            /\ seq.fired = <<>>
            /\ Timer_active(seq.event_timer_) = Timer_active(Before.event_timer_)
            /\ seq.done_ = Before.done_
            /\ seq.wrap_ = Before.wrap_

C13_Witness ==
    /\ op = "prev"
    /\ Length = 2
    /\ Before.current_ = 0
    /\ seq.current_ = LastIndex
    /\ ~seq.wrap_
    /\ StatusBefore = "Active"
    /\ Sequencer_elapsed(Before, now) > 0

(* ----------------------- claims about the Timer ------------------------- *)
ElapsedNow == Timer_elapsed(timer, now)
ElapsedBefore == Timer_elapsed(tpre, now)

\* C14: after stop() has halted a running timer, and until resume(), start(),
\* reset() or interval(d) is called, the timer is stopped and elapsed() is the
\* elapsed time at that stop(), whatever the clock reads; a further stop()
\* does not change it.
C14_StopFreezesElapsed ==
    frozen # NoValue
      => /\ ~timer.active_
         /\ ElapsedNow = frozen
         /\ op = "elapsed" => ret = frozen

C14_Witness ==
    /\ op = "stop"
    /\ ~tpre.active_
    /\ frozen # NoValue
    /\ frozen > 0
    /\ now # timer.end_

\* C15: resume() on a stopped timer leaves it running with elapsed() as it
\* was while stopped, and in every state elapsed() is the time the timer has
\* spent running since it was last started or reset.
C15_ElapsedIsRunningTime ==
    /\ (op = "resume" /\ ~tpre.active_)
         => (timer.active_ /\ ElapsedNow = ElapsedBefore)
    /\ (ran # NoValue /\ ran < RunCap) => ElapsedNow = ran

\* C15 amended: the same, with elapsed() equal to that running time modulo
\* the range of msecs_t (so equal to it while it is below that range).
C15_ElapsedIsRunningTimeModRange ==
    /\ (op = "resume" /\ ~tpre.active_)
         => (timer.active_ /\ ElapsedNow = ElapsedBefore)
    /\ (ran # NoValue /\ ran < RunCap) => ElapsedNow = ran % ClockMod
    /\ (ran # NoValue /\ ran < RunCap /\ op = "elapsed")
         => ret = ran % ClockMod

C15_Witness ==
    /\ op = "resume"
    /\ ~tpre.active_
    /\ timer.active_
    /\ ran # NoValue
    /\ ran > 0
    /\ ran < ClockMod
    /\ now # tpre.end_

\* C16: start() and start(d) on a stopped timer leave it running with
\* elapsed() = 0 at that clock reading.
C16_StartZeroesElapsed ==
    (op \in {"start", "startd"} /\ ~tpre.active_)
      => (timer.active_ /\ ElapsedNow = 0)

C16_Witness ==
    /\ op = "start"
    /\ ~tpre.active_
    /\ ElapsedBefore > 0
    /\ timer.active_

C18_StartWhileRunning ==
    (op \in {"start", "startd"} /\ tpre.active_) => timer = tpre

C18_Witness ==
    /\ op = "startd"
    /\ tpre.active_
    /\ arg # tpre.interval_
    /\ ElapsedNow > 0

\* C19: interval(d) leaves the interval d and elapsed() = 0 at that clock
\* reading, and the running flag as it was.
C19_IntervalResets ==
    op = "interval"
      => /\ timer.interval_ = arg
         /\ ElapsedNow = 0
         /\ timer.active_ = tpre.active_

C19_Witness ==
    /\ op = "interval"
    /\ tpre.active_
    /\ ElapsedBefore > 0
    /\ arg # tpre.interval_

\* C20: reset() leaves elapsed() = 0 at that clock reading, and the running
\* flag and the interval as they were.
C20_ResetZeroesElapsed ==
    op = "reset"
      => /\ ElapsedNow = 0
         /\ timer.active_ = tpre.active_
         /\ timer.interval_ = tpre.interval_

C20_Witness ==
    /\ op = "reset"
    /\ ~tpre.active_
    /\ ElapsedBefore > 0

\* C21: a running timer whose running time d is below the range of msecs_t
\* reports elapsed() = d, also when the clock reading has wrapped past its
\* maximum since the begin reference; and a task that last fired d ago, d
\* below that range, is scheduled exactly when it is Active and d is at least
\* its interval, whatever the clock reads.
C21_ElapsedAcrossWrap ==
    /\ (timer.active_ /\ ran # NoValue /\ ran < ClockMod) => ElapsedNow = ran
    /\ (op = "elapsed" /\ timer.active_ /\ ran # NoValue /\ ran < ClockMod)
         => ret = ran
    /\ \A task \in Task, d \in Clock :
          TaskScheduler_scheduled(task, (task.last_ + d) % ClockMod)
            <=> (task.state_ = "Active" /\ d >= task.interval_)

C21_Witness ==
    /\ op = "elapsed"
    /\ timer.active_
    /\ ran # NoValue
    /\ ran > 0
    /\ ran < ClockMod
    /\ now < timer.begin_
    /\ ret = ran

\* C22: while a timer is running and the clock has not wrapped since its
\* begin reference, every clock step that does not wrap raises elapsed() by
\* one, whether or not the interval has expired, and no call other than
\* stop(), reset() and interval(d) changes elapsed(); so elapsed() at a later
\* reading is never below elapsed() at an earlier one.
C22_ElapsedKeepsIncreasing ==
    [][ (timer.active_ /\ ran # NoValue /\ ran = now - timer.begin_)
          => /\ (op' = "clock" /\ now' > now)
                  => Timer_elapsed(timer', now') = ElapsedNow + 1
             /\ op' \in {"elapsed", "expired", "start", "startd", "resume"}
                  => Timer_elapsed(timer', now') = ElapsedNow ]_vars

C22_Witness ==
    /\ op = "clock"
    /\ timer.active_
    /\ ran # NoValue
    /\ ran = now - timer.begin_
    /\ timer.interval_ # 0
    /\ ElapsedNow > timer.interval_

TaskIds == 1 .. Len(sched.tasks_)
FiredSet == { sched.fired[p] : p \in 1..Len(sched.fired) }

\* Task i was Active and due when the last tick() tested it.
DueWhenChecked(i) ==
    LET c == sched.checked[i]
    IN  /\ c.task.state_ = "Active"
        /\ Sub(c.millis, c.task.last_) >= c.task.interval_

\* A command executed earlier in the last tick() set task i Active.
Woken(i) ==
    /\ i > 1
    /\ (i - 1) \in FiredSet
    /\ sched.tasks_[i - 1].command_ = "activeNext"

C25_AtMostOncePerTick ==
    op = "tick"
      => \A i \in TaskIds :
            Cardinality({ p \in 1..Len(sched.fired) : sched.fired[p] = i }) <= 1

C25_Witness ==
    /\ op = "tick"
    /\ \E i \in FiredSet :
          /\ kpre.tasks_[i].interval_ # 0
          /\ Sub(now, kpre.tasks_[i].last_) >= 2 * kpre.tasks_[i].interval_

\* C26: when one tick() executes the commands of two tasks, the command of
\* the task that comes first in the collection is executed first.
C26_CollectionOrder ==
    op = "tick"
      => \A p, q \in 1..Len(sched.fired) :
            sched.fired[p] < sched.fired[q] => p < q

C26_Witness ==
    /\ op = "tick"
    /\ Len(sched.fired) >= 2
    /\ sched.fired[1] # sched.fired[2]

(* -------------------- claims about the RotaryActuator ------------------- *)
ActuatorBefore == apre.act
ReadingBefore == SweepServo_sweep(apre.act.servo_)
ReadingNow == SweepServo_sweep(act.servo_)
SweepInvoked == \E p \in 1..Len(act.fired) : act.fired[p][1] = "sweep"

\* C27: begin() leaves the state Idle when the servo's reading is a valid
\* angle and Error when it is InvalidAngle, and changes nothing else.
C27_BeginReadsServo ==
    op = "begin"
      => /\ ReadingBefore # InvalidAngle => act.state_ = "Idle"
         /\ ReadingBefore = InvalidAngle => act.state_ = "Error"
         /\ act.servo_ = ActuatorBefore.servo_
         /\ act.cmd_angle_ = ActuatorBefore.cmd_angle_

C27_Witness ==
    /\ op = "begin"
    /\ ActuatorBefore.state_ = "Error"
    /\ act.state_ = "Idle"

\* C28: position(a) called in Idle with a valid angle a other than the
\* current position invokes the servo's sweep to a and leaves the state
\* Active.
C28_PositionStartsSweep ==
    (/\ op = "position"
     /\ ActuatorBefore.state_ = "Idle"
     /\ apre.arg # InvalidAngle
     /\ apre.arg # RotaryActuator_getPosition(ActuatorBefore))
      => /\ act.fired[1] = Swept(apre.arg)
         /\ act.state_ = "Active"

\* C29: position(a) called in Idle with a equal to the current position
\* leaves the state Idle and does not invoke the servo's sweep.
C29_SamePositionNoOp ==
    (/\ op = "position"
     /\ ActuatorBefore.state_ = "Idle"
     /\ apre.arg = RotaryActuator_getPosition(ActuatorBefore))
      => /\ act.state_ = "Idle"
         /\ ~SweepInvoked

\* C30: whenever the state changes from Active to Idle the servo's reading
\* is the commanded angle; and step() in Active with another reading clocks
\* the servo once and leaves the state Active.
C30_IdleOnlyAtTarget ==
    /\ (ActuatorBefore.state_ = "Active" /\ act.state_ = "Idle")
         => ReadingNow = act.cmd_angle_
    /\ (/\ op = "step"
        /\ ActuatorBefore.state_ = "Active"
        /\ ReadingBefore # ActuatorBefore.cmd_angle_)
         => /\ act.fired = <<Clocked>>
            /\ act.servo_ = SweepServo_clock(ActuatorBefore.servo_)
            /\ act.state_ = "Active"

\* C30 amended: whenever step() changes the state from Active to Idle the
\* servo's reading is the commanded angle; and step() in Active with another
\* reading clocks the servo once and leaves the state Active.
C30_StepIdleOnlyAtTarget ==
    /\ (op = "step" /\ ActuatorBefore.state_ = "Active" /\ act.state_ = "Idle")
         => ReadingNow = act.cmd_angle_
    /\ (/\ op = "step"
        /\ ActuatorBefore.state_ = "Active"
        /\ ReadingBefore # ActuatorBefore.cmd_angle_)
         => /\ act.fired = <<Clocked>>
            /\ act.servo_ = SweepServo_clock(ActuatorBefore.servo_)
            /\ act.state_ = "Active"

C30_Witness ==
    /\ op = "step"
    /\ ActuatorBefore.state_ = "Active"
    /\ act.state_ = "Idle"
    /\ act.servo_.current_step_ = act.servo_.final_step_
    /\ ReadingNow = act.cmd_angle_

Callbacks == SelectSeq(act.fired, LAMBDA e : e[1] = "callback")

\* C31: a call that changes the state calls the client back exactly once,
\* with the new state, and a call that leaves the state as it was does not
\* call back.
C31_CallbackOncePerChange ==
    /\ act.state_ # ActuatorBefore.state_
         => Callbacks = <<Callback(act.state_)>>
    /\ act.state_ = ActuatorBefore.state_ => Callbacks = <<>>

C31_Witness ==
    /\ op = "position"
    /\ ActuatorBefore.state_ = "Idle"
    /\ act.fired = <<Swept(apre.arg), Callback("Active")>>

\* C32: in Error, position(a) and step() change no member and command the
\* servo nothing, and only begin() takes the state out of Error.
C32_ErrorIsSticky ==
    /\ (ActuatorBefore.state_ = "Error" /\ op \in {"position", "step"})
         => /\ Members(act) = ActuatorBefore
            /\ act.fired = <<>>
    /\ (ActuatorBefore.state_ = "Error" /\ act.state_ # "Error")
         => op = "begin"

C32_Witness ==
    /\ op = "position"
    /\ ActuatorBefore.state_ = "Error"
    /\ apre.arg # InvalidAngle
    /\ SweepServo_initialized(act.servo_)
    /\ apre.arg # ReadingNow

\* C36: only begin() takes the state out of Init; step() in Init, Idle or
\* Error leaves the state as it was; and the state becomes Idle from Init
\* only with a valid reading of the servo.
C36_InitLeftOnlyByBegin ==
    /\ (ActuatorBefore.state_ = "Init" /\ act.state_ # "Init")
         => op = "begin"
    /\ (op = "step" /\ ActuatorBefore.state_ \in {"Init", "Idle", "Error"})
         => act.state_ = ActuatorBefore.state_
    /\ (ActuatorBefore.state_ = "Init" /\ act.state_ = "Idle")
         => ReadingBefore # InvalidAngle

(* ------------------- further claims about the Sequencer ----------------- *)
EndCallbacks == SelectSeq(seq.fired, LAMBDA e : e[1] = "End")
Executions == SelectSeq(seq.fired, LAMBDA e : e[1] = "execute")

\* C33: a tick() that finds the current event expired makes exactly one End
\* callback, for that event; so does the tick() that completes a sequence
\* that does not wrap.
C33_OneEndPerEvent ==
    (op = "tick" /\ ExpiredBefore)
      => EndCallbacks = <<CallbackEnd(Before.current_)>>

C37_CommandExactlyAtBegin ==
    /\ \A p \in 1..Len(seq.fired) :
          /\ seq.fired[p][1] = "Begin"
               => IF seq.events_[seq.fired[p][2] + 1].command_
                  THEN p > 1 /\ seq.fired[p - 1] = Executed(seq.fired[p][2])
                  ELSE p = 1 \/ seq.fired[p - 1][1] # "execute"
          /\ seq.fired[p][1] = "execute"
               => /\ p < Len(seq.fired)
                  /\ seq.fired[p + 1] = CallbackBegin(seq.fired[p][2])
                  /\ seq.events_[seq.fired[p][2] + 1].command_
    /\ (\/ op \in {"stop", "next", "prev"}
        \/ (op = "tick" /\ ~ExpiredBefore)
        \/ (op = "reset" /\ StatusBefore # "Active"))
         => Executions = <<>>

C37_Witness ==
    /\ op = "tick"
    /\ Len(seq.fired) = 3
    /\ seq.fired[2] = Executed(seq.current_)
    /\ seq.fired[3] = CallbackBegin(seq.current_)

\* Task i, set Active, is scheduled d milliseconds after the current reading.
DueAfter(i, d) ==
    TaskScheduler_scheduled([sched.tasks_[i] EXCEPT !.state_ = "Active"],
                            (now + d) % ClockMod)

\* C35: a tick() that executes a task's command leaves the task's last_ equal
\* to the clock reading of that tick(); that reading is at least the task's
\* interval after the previous value of last_, and from it the task is due
\* again exactly when its interval has passed (within one round of the
\* clock); last_ is changed by nothing but a firing.
C35_LastIsFiringTime ==
    op # "init"
      => \A i \in TaskIds :
            IF op = "tick" /\ i \in FiredSet
            THEN /\ sched.tasks_[i].last_ = now
                 /\ sched.tasks_[i].interval_ = kpre.tasks_[i].interval_
                 /\ Sub(now, kpre.tasks_[i].last_) >= kpre.tasks_[i].interval_
                 /\ \A d \in Clock :
                       DueAfter(i, d) <=> d >= sched.tasks_[i].interval_
            ELSE sched.tasks_[i].last_ = kpre.tasks_[i].last_

\* A task fires later than it became due, and its last_ is the reading of the
\* firing and not the reading at which it was due.
C35_Witness ==
    /\ op = "tick"
    /\ \E i \in FiredSet :
          /\ kpre.tasks_[i].interval_ # 0
          /\ Sub(now, kpre.tasks_[i].last_) > kpre.tasks_[i].interval_
          /\ sched.tasks_[i].last_ = now
          /\ now # (kpre.tasks_[i].last_ + kpre.tasks_[i].interval_) % ClockMod

\* The events whose Begin callback has fired, in the order of the callbacks.
Begun == SelectSeq(seq.fired, LAMBDA e : e[1] = "Begin")
BegunInOrder == Begun = [i \in 1..Length |-> CallbackBegin(i - 1)]
PositiveDurations == \A i \in 1..Length : seq.events_[i].duration_ > 0

\* C38 as stated: a Sequencer that does not wrap, started and then polled by
\* tick() while the clock advances, eventually has status Done, the Begin
\* callbacks of its events having fired once each in collection order,
\* whatever the durations of the events.
C38_EventuallyDone ==
    (op = "start") ~> (StatusNow = "Done" /\ BegunInOrder)

\* C38 amended: the same for sequences whose events all have a duration
\* greater than zero; and whenever such a run is Done the Begin callbacks
\* have fired once each in collection order.
C38_EventuallyDoneIfPositive ==
    /\ (op = "start" /\ PositiveDurations)
          ~> (StatusNow = "Done" /\ BegunInOrder)
    /\ [](StatusNow = "Done" => BegunInOrder)

C38_Witness ==
    /\ op = "tick"
    /\ Length = MaxEvents
    /\ PositiveDurations
    /\ StatusNow = "Done"
    /\ BegunInOrder

\* Task i exists and is Active.
IsActive(i) == i \in TaskIds /\ sched.tasks_[i].state_ = "Active"
FiredNow(i) == op = "tick" /\ i \in FiredSet

\* C39: when tick() is called again and again while the clock advances, a
\* task that is Active throughout, with the interval it was given, has its
\* command executed infinitely often, whatever the other tasks of the
\* collection are and do.
C39_NoStarvation ==
    \A i \in 1..MaxTasks : []IsActive(i) => []<>FiredNow(i)

\* One tick() executes both tasks of a collection, each of which has fired
\* before, the second although the first is due at every poll.
C39_Witness ==
    /\ op = "tick"
    /\ Len(sched.tasks_) = 2
    /\ sched.fired = <<1, 2>>
    /\ kpre.tasks_[1].interval_ = 0
    /\ kpre.tasks_[2].interval_ # 0
    /\ \A i \in TaskIds : /\ kpre.tasks_[i].last_ # 0
                           /\ kpre.tasks_[i].state_ = "Active"
                           /\ sched.tasks_[i].state_ = "Active"

\* position(angle) has just been called on an Idle actuator over an
\* initialized servo, with a valid angle other than the current position.
Commanded ==
    /\ op = "position"
    /\ ActuatorBefore.state_ = "Idle"
    /\ SweepServo_initialized(ActuatorBefore.servo_)
    /\ apre.arg # InvalidAngle
    /\ apre.arg # RotaryActuator_getPosition(ActuatorBefore)
AtFinalStep == act.servo_.current_step_ = act.servo_.final_step_

\* C40: after such a position(a), repeated step() calls eventually leave the
\* actuator Idle with the servo at its final step and position() equal to a.
C40_RotationCompletes ==
    Commanded ~> (/\ act.state_ = "Idle"
                  /\ AtFinalStep
                  /\ RotaryActuator_getPosition(act) = act.cmd_angle_)

====
